---- MODULE Spec2Model ----
(***************************************************************************)
(* Model of github.com/Southclaws/opt (src/opt.go, lines 1-282).           *)
(*                                                                         *)
(* Optional[T] is a Go slice type (container[T] = []T).  A slice is a      *)
(* header (base pointer, length) over a backing array, so the model keeps  *)
(* a heap of backing arrays and represents an Optional by its header.      *)
(* A client program owns one Optional variable x, one pointer variable     *)
(* ptr, and the results of its last call into the package.                 *)
(***************************************************************************)
EXTENDS Integers, Sequences, FiniteSets, TLC

\* Number of heap cells (backing arrays and caller variables) that can be
\* live at once.
MaxCells == 5

VARIABLES
    heap,   \* address -> backing array (a sequence of values)
    x,      \* the client's variable of type Optional[T]
    ptr,    \* the client's variable of type *T (0 is nil)
    last,   \* the last call: its name, its arguments and everything it returned
    curried, \* the client's variable holding a curried function (a closure over fn)
    threads \* the calls reader goroutines have finished on the shared x, by value

vars == <<heap, x, ptr, last, curried, threads>>

-----------------------------------------------------------------------------
(* Values of the payload types.  Strings are sequences of one-character    *)
(* strings so that encoding and parsing can be computed.                   *)

Types == {"int", "string", "bool", "float", "ptr", "opt"}

IntV(n)  == [t |-> "int", n |-> n]
StrV(s)  == [t |-> "string", s |-> s]
BoolV(b) == [t |-> "bool", b |-> b]
\* float64: a number of tenths, or NaN.
FloatV(n) == [t |-> "float", nan |-> FALSE, tenths |-> n]
NaN       == [t |-> "float", nan |-> TRUE, tenths |-> 0]
\* *int as a payload: <<>> is the nil pointer, <<n>> points at n.
PtrV(p)  == [t |-> "ptr", p |-> p]
\* Optional[int] as a payload: <<>> is Empty, <<n>> is Present(n).
OptV(o)  == [t |-> "opt", o |-> o]
NoVal    == [t |-> "none"]

Ints == {-1, 0, 69}
Strs == { <<>>, <<"6", "9">>, <<"n", "u", "l", "l">> }

ValuesOf(T) ==
    CASE T = "int"    -> {IntV(n) : n \in Ints}
      [] T = "string" -> {StrV(s) : s \in Strs}
      [] T = "bool"   -> {BoolV(b) : b \in BOOLEAN}
      [] T = "float"  -> {FloatV(15), NaN}
      [] T = "ptr"    -> {PtrV(<<>>)} \cup {PtrV(<<n>>) : n \in {0, 69}}
      [] T = "opt"    -> {OptV(<<>>)} \cup {OptV(<<n>>) : n \in {0, 69}}

\* `var zero T`
Zero(T) ==
    CASE T = "int"    -> IntV(0)
      [] T = "string" -> StrV(<<>>)
      [] T = "bool"   -> BoolV(FALSE)
      [] T = "float"  -> FloatV(0)
      [] T = "ptr"    -> PtrV(<<>>)
      [] T = "opt"    -> OptV(<<>>)

-----------------------------------------------------------------------------
(* The heap: allocation of a fresh backing array or variable.              *)

Free(h) == (1..MaxCells) \ DOMAIN h

Alloc(h) == CHOOSE a \in Free(h) : \A b \in Free(h) : a <= b

Put(h, a, arr) == [b \in DOMAIN h \cup {a} |-> IF b = a THEN arr ELSE h[b]]

\* The nil slice of element type T.
Nil(T) == [T |-> T, base |-> 0, len |-> 0]

NoOpt == [T |-> "none", base |-> 0, len |-> 0]

\* `o[0]`: Go panics when the index is out of range.
InRange(h, o) == o.base \in DOMAIN h /\ o.len >= 1 /\ Len(h[o.base]) >= 1

At0(h, o) == IF InRange(h, o) THEN h[o.base][1] ELSE NoVal

\* A pointer *T: its static element type and the address it holds (0 is nil).
NilPtr(T) == [T |-> T, a |-> 0]

NoPtr == [T |-> "none", a |-> 0]

\* `*ptr` for a non-nil pointer.
Deref(h, p) == h[p.a][1]

-----------------------------------------------------------------------------
(* Caller-supplied functions.  The package only invokes them; the ones     *)
(* modelled are those the tests and the README pass in.                    *)

Digit == <<"0", "1", "2", "3", "4", "5", "6", "7", "8", "9">>

IsDigit(c) == \E d \in 1..10 : Digit[d] = c

DigitVal(c) == (CHOOSE d \in 1..10 : Digit[d] = c) - 1

RECURSIVE FormatNat(_)
FormatNat(n) == IF n < 10 THEN <<Digit[n + 1]>>
                ELSE FormatNat(n \div 10) \o <<Digit[(n % 10) + 1]>>

\* strconv.Itoa, and the number encoding json.Marshal uses for an int.
FormatInt(n) == IF n < 0 THEN <<"-">> \o FormatNat(-n) ELSE FormatNat(n)

RECURSIVE ParseNat(_)
ParseNat(s) == IF Len(s) = 0 THEN 0
               ELSE 10 * ParseNat(SubSeq(s, 1, Len(s) - 1)) + DigitVal(s[Len(s)])

AllDigits(s) == Len(s) > 0 /\ \A i \in 1..Len(s) : IsDigit(s[i])

ErrNil == "nil"

\* strconv.Atoi: an optional sign, then decimal digits; (0, ErrSyntax) otherwise.
Atoi(s) ==
    LET signed == Len(s) > 0 /\ s[1] \in {"-", "+"}
        body   == IF signed THEN SubSeq(s, 2, Len(s)) ELSE s
    IN  IF ~AllDigits(body) THEN [out |-> IntV(0), err |-> "strconv.ErrSyntax"]
        ELSE [out |-> IntV(IF signed /\ s[1] = "-" THEN -ParseNat(body) ELSE ParseNat(body)),
              err |-> ErrNil]

Upper(c) ==
    CASE c = "g" -> "G" [] c = "o" -> "O" [] c = "n" -> "N"
      [] c = "u" -> "U" [] c = "l" -> "L" [] OTHER -> c

\* func(T) R
Fns == {"ToUpper", "Len", "Itoa", "Ident"}

FnsFrom(T) ==
    CASE T = "string" -> {"ToUpper", "Len", "Ident"}
      [] T = "int"    -> {"Itoa", "Ident"}
      [] OTHER        -> {"Ident"}

FnOut(fn, T) ==
    CASE fn = "Len"  -> "int"
      [] fn = "Itoa" -> "string"
      [] OTHER       -> T

Apply(fn, v) ==
    CASE fn = "ToUpper" -> StrV([i \in 1..Len(v.s) |-> Upper(v.s[i])])
      [] fn = "Len"     -> IntV(Len(v.s))
      [] fn = "Itoa"    -> StrV(FormatInt(v.n))
      [] fn = "Ident"   -> v

\* func(T) (R, error).  Limit rejects large numbers but still returns one.
ErrFnsFrom(T) ==
    CASE T = "string" -> {"Atoi"}
      [] T = "int"    -> {"Limit"}
      [] OTHER        -> {}

ApplyErr(fn, v) ==
    CASE fn = "Atoi"  -> Atoi(v.s)
      [] fn = "Limit" -> [out |-> v, err |-> IF v.n > 9 THEN "ErrRange" ELSE ErrNil]

\* func(T) bool
Preds == {"Always", "Never", "NotZero"}

Test(pred, v) ==
    CASE pred = "Always"  -> TRUE
      [] pred = "Never"   -> FALSE
      [] pred = "NotZero" -> v # Zero(v.t)

\* One invocation of a caller-supplied function.
Invoke(fn, v) == [fn |-> fn, arg |-> v]

-----------------------------------------------------------------------------
(* What a call returns: the heap after it, and its results.  Results the   *)
(* function does not have keep their placeholder.                          *)

Ret(h) == [h |-> h, opt |-> NoOpt, val |-> NoVal, ok |-> FALSE, err |-> ErrNil,
           ptr |-> NoPtr, data |-> <<>>, calls |-> <<>>, panic |-> FALSE]

-----------------------------------------------------------------------------
(* Constructors                                                            *)

\* The composite literal `Optional[T]{value}`: a fresh one-element backing array.
Lit(h, value) ==
    LET a == Alloc(h)
    IN  [Ret(Put(h, a, <<value>>)) EXCEPT !.opt = [T |-> value.t, base |-> a, len |-> 1]]

\* Mutant of NewEmpty: `return Optional[T]{}`, an empty slice that is not nil.
NewEmpty_EmptySlice(h, T) ==
    LET a == Alloc(h)
    IN  [Ret(Put(h, a, <<>>)) EXCEPT !.opt = [T |-> T, base |-> a, len |-> 0]]

\* func NewEmpty[T any]() Optional[T] { return nil }
NewEmpty(h, T) == [Ret(h) EXCEPT !.opt = Nil(T)]

\* func New[T any](value T) Optional[T] { return Optional[T]{value} }
New(h, value) == Lit(h, value)

\* Mutant of NewMap: a zero result of fn is not wrapped.
NewMap_DropsZero(h, v, fn) ==
    [(IF Apply(fn, v) = Zero(FnOut(fn, v.t)) THEN NewEmpty(h, FnOut(fn, v.t))
      ELSE New(h, Apply(fn, v)))
        EXCEPT !.calls = <<Invoke(fn, v)>>]

NewMap(h, v, fn) ==
    [New(h, Apply(fn, v)) EXCEPT !.calls = <<Invoke(fn, v)>>]

\* Mutant of NewSafe: a zero value counts as not ok.
NewSafe_ChecksValue(h, value, ok) ==
    IF ok /\ value # Zero(value.t) THEN Lit(h, value) ELSE [Ret(h) EXCEPT !.opt = Nil(value.t)]

NewSafe(h, value, ok) ==
    IF ok THEN Lit(h, value) ELSE [Ret(h) EXCEPT !.opt = Nil(value.t)]

NewIf(h, v, fn) ==
    [(IF Test(fn, v) THEN New(h, v) ELSE NewEmpty(h, v.t))
        EXCEPT !.calls = <<Invoke(fn, v)>>]

\* Mutant of NewPtr: the Optional is a slice over the caller's variable.
NewPtr_Aliases(h, p) ==
    IF p.a = 0 THEN NewEmpty(h, p.T)
    ELSE [Ret(h) EXCEPT !.opt = [T |-> p.T, base |-> p.a, len |-> 1]]

NewPtr(h, p) ==
    IF p.a = 0 THEN NewEmpty(h, p.T) ELSE New(h, Deref(h, p))

NewPtrMap(h, p, fn) ==
    IF p.a = 0 THEN NewEmpty(h, FnOut(fn, p.T))
    ELSE [New(h, Apply(fn, Deref(h, p))) EXCEPT !.calls = <<Invoke(fn, Deref(h, p))>>]

\* Mutant of NewPtrIf: the predicate runs once per branch test.
NewPtrIf_TestsTwice(h, p, fn) ==
    IF p.a = 0 THEN NewEmpty(h, p.T)
    ELSE IF ~Test(fn, Deref(h, p))
         THEN [NewEmpty(h, p.T) EXCEPT !.calls = <<Invoke(fn, Deref(h, p))>>]
         ELSE [New(h, Deref(h, p)) EXCEPT
                  !.calls = <<Invoke(fn, Deref(h, p)), Invoke(fn, Deref(h, p))>>]

NewPtrIf(h, p, fn) ==
    IF p.a = 0 THEN NewEmpty(h, p.T)
    ELSE IF ~Test(fn, Deref(h, p))
         THEN [NewEmpty(h, p.T) EXCEPT !.calls = <<Invoke(fn, Deref(h, p))>>]
         ELSE [New(h, Deref(h, p)) EXCEPT !.calls = <<Invoke(fn, Deref(h, p))>>]

\* Mutant of NewPtrOr: a nil pointer gives Empty, as in NewPtr.
NewPtrOr_PropagatesNil(h, p, fallback) ==
    IF p.a = 0 THEN NewEmpty(h, p.T) ELSE New(h, Deref(h, p))

NewPtrOr(h, p, fallback) ==
    IF p.a = 0 THEN New(h, fallback) ELSE New(h, Deref(h, p))

-----------------------------------------------------------------------------
(* Accessors.  Every `o[0]` panics when the slice has no element 0.        *)

\* func (o Optional[T]) Ok() bool { return o != nil }
Ok(o) == o.base # 0

\* Mutant of Get: a held zero value is reported as absent.
Get_ZeroIsAbsent(h, o) ==
    IF o.base = 0 \/ At0(h, o) = Zero(o.T)
    THEN [Ret(h) EXCEPT !.val = Zero(o.T), !.ok = FALSE]
    ELSE [Ret(h) EXCEPT !.val = At0(h, o), !.ok = TRUE, !.panic = ~InRange(h, o)]

Get(h, o) ==
    IF o.base = 0 THEN [Ret(h) EXCEPT !.val = Zero(o.T), !.ok = FALSE]
    ELSE [Ret(h) EXCEPT !.val = At0(h, o), !.ok = TRUE, !.panic = ~InRange(h, o)]

GetMap(h, in, fn) ==
    IF in.base = 0 THEN [Ret(h) EXCEPT !.val = Zero(FnOut(fn, in.T)), !.ok = FALSE]
    ELSE IF ~InRange(h, in) THEN [Ret(h) EXCEPT !.panic = TRUE]
    ELSE [Ret(h) EXCEPT !.val = Apply(fn, At0(h, in)), !.ok = TRUE,
                        !.calls = <<Invoke(fn, At0(h, in))>>]

GetMapC(h, in, fn) == GetMap(h, in, fn)

\* `&o[0]`: a pointer into the optional's own backing array.
Ptr(h, o) ==
    IF o.base = 0 THEN [Ret(h) EXCEPT !.ptr = NilPtr(o.T)]
    ELSE [Ret(h) EXCEPT !.ptr = [T |-> o.T, a |-> o.base], !.panic = ~InRange(h, o)]

\* Mutant of PtrMap: fn(val) is stored back into o[0] and &o[0] returned.
PtrMap_InPlace(h, o, fn) ==
    IF o.base = 0 THEN [Ret(h) EXCEPT !.ptr = NilPtr(FnOut(fn, o.T))]
    ELSE [Ret(Put(h, o.base, <<Apply(fn, At0(h, o))>>)) EXCEPT
             !.ptr = [T |-> FnOut(fn, o.T), a |-> o.base],
             !.calls = <<Invoke(fn, At0(h, o))>>]

\* `v := fn(val); return &v`: a pointer to a fresh variable.
PtrMap(h, o, fn) ==
    LET got == Get(h, o)
        a   == Alloc(h)
    IN  IF got.panic THEN [Ret(h) EXCEPT !.panic = TRUE]
        ELSE IF got.ok
        THEN [Ret(Put(h, a, <<Apply(fn, got.val)>>)) EXCEPT
                 !.ptr = [T |-> FnOut(fn, o.T), a |-> a],
                 !.calls = <<Invoke(fn, got.val)>>]
        ELSE [Ret(h) EXCEPT !.ptr = NilPtr(FnOut(fn, o.T))]

PtrMapC(h, in, fn) == PtrMap(h, in, fn)

\* Mutant of Or: a held zero value gives way to the fallback.
Or_ZeroIsAbsent(h, o, v) ==
    IF o.base = 0 \/ At0(h, o) = Zero(o.T) THEN [Ret(h) EXCEPT !.val = v]
    ELSE [Ret(h) EXCEPT !.val = At0(h, o), !.panic = ~InRange(h, o)]

Or(h, o, v) ==
    IF o.base = 0 THEN [Ret(h) EXCEPT !.val = v]
    ELSE [Ret(h) EXCEPT !.val = At0(h, o), !.panic = ~InRange(h, o)]

\* The callback of Call returns nothing; it is invoked for its effect.
Call(h, o, f) ==
    IF o.base # 0
    THEN IF InRange(h, o) THEN [Ret(h) EXCEPT !.calls = <<Invoke(f, At0(h, o))>>]
         ELSE [Ret(h) EXCEPT !.panic = TRUE]
    ELSE Ret(h)

\* Mutant of OrCall: the supplier runs before the nil test.
OrCall_Eager(h, o, fn) ==
    IF o.base # 0
    THEN [Ret(h) EXCEPT !.val = At0(h, o), !.panic = ~InRange(h, o),
                        !.calls = <<Invoke("supplier", fn)>>]
    ELSE [Ret(h) EXCEPT !.val = fn, !.calls = <<Invoke("supplier", fn)>>]

\* The supplier func() T is modelled by the value it returns.
OrCall(h, o, fn) ==
    IF o.base # 0 THEN [Ret(h) EXCEPT !.val = At0(h, o), !.panic = ~InRange(h, o)]
    ELSE [Ret(h) EXCEPT !.val = fn, !.calls = <<Invoke("supplier", fn)>>]

OrZero(h, o) ==
    IF o.base = 0 THEN [Ret(h) EXCEPT !.val = Zero(o.T)]
    ELSE [Ret(h) EXCEPT !.val = At0(h, o), !.panic = ~InRange(h, o)]

-----------------------------------------------------------------------------
(* Conditional pipelines                                                   *)

\* Mutant of Map: no nil check, fn runs on the zero value of an Empty input.
Map_NoShortCircuit(h, in, fn) ==
    LET v == IF in.base = 0 THEN Zero(in.T) ELSE At0(h, in)
    IN  [Lit(h, Apply(fn, v)) EXCEPT !.calls = <<Invoke(fn, v)>>]

\* Mutant of Map: a zero result of fn is taken for "no value".
Map_DropsZero(h, in, fn) ==
    IF in.base = 0 \/ Apply(fn, At0(h, in)) = Zero(FnOut(fn, in.T))
    THEN [Ret(h) EXCEPT !.opt = Nil(FnOut(fn, in.T)),
                        !.calls = IF in.base = 0 THEN <<>> ELSE <<Invoke(fn, At0(h, in))>>]
    ELSE [Lit(h, Apply(fn, At0(h, in))) EXCEPT !.calls = <<Invoke(fn, At0(h, in))>>]

\* Mutant of Map: when fn keeps the type, the result reuses the input's
\* backing array.
Map_InPlace(h, in, fn) ==
    IF in.base = 0 THEN [Ret(h) EXCEPT !.opt = Nil(FnOut(fn, in.T))]
    ELSE IF FnOut(fn, in.T) = in.T
    THEN [Ret(Put(h, in.base, <<Apply(fn, At0(h, in))>>)) EXCEPT
             !.opt = in, !.calls = <<Invoke(fn, At0(h, in))>>]
    ELSE [Lit(h, Apply(fn, At0(h, in))) EXCEPT !.calls = <<Invoke(fn, At0(h, in))>>]

Map(h, in, fn) ==
    IF in.base = 0 THEN [Ret(h) EXCEPT !.opt = Nil(FnOut(fn, in.T))]
    ELSE IF ~InRange(h, in) THEN [Ret(h) EXCEPT !.panic = TRUE]
    ELSE [Lit(h, Apply(fn, At0(h, in))) EXCEPT !.calls = <<Invoke(fn, At0(h, in))>>]

\* Mutant of MapC: the closure keeps the result of its previous application.
MapC_Memo(h, in, fn) ==
    IF last.op = "MapC" /\ last.fn = fn
    THEN [Ret(h) EXCEPT !.opt = last.opt]
    ELSE Map(h, in, fn)

MapC(h, in, fn) == Map(h, in, fn)

\* The element type of the result of a fallible function.
ErrFnOut(fn) == "int"

\* Mutant of MapErr: the error is returned but out is wrapped all the same.
MapErr_KeepsOut(h, in, fn) ==
    IF in.base = 0 THEN [Ret(h) EXCEPT !.opt = Nil(ErrFnOut(fn))]
    ELSE LET r == ApplyErr(fn, At0(h, in))
         IN  [Lit(h, r.out) EXCEPT !.err = r.err, !.calls = <<Invoke(fn, At0(h, in))>>]

MapErr(h, in, fn) ==
    IF in.base = 0 THEN [Ret(h) EXCEPT !.opt = Nil(ErrFnOut(fn))]
    ELSE IF ~InRange(h, in) THEN [Ret(h) EXCEPT !.panic = TRUE]
    ELSE LET r == ApplyErr(fn, At0(h, in))
         IN  IF r.err # ErrNil
             THEN [Ret(h) EXCEPT !.opt = Nil(ErrFnOut(fn)), !.err = r.err,
                                 !.calls = <<Invoke(fn, At0(h, in))>>]
             ELSE [Lit(h, r.out) EXCEPT !.calls = <<Invoke(fn, At0(h, in))>>]

MapErrC(h, in, fn) == MapErr(h, in, fn)


-----------------------------------------------------------------------------
(* encoding/json for the payload types: what json.Marshal writes for a     *)
(* value of T and what json.Unmarshal reads into a zero `var v T`.         *)

Quote == "\""

Null == <<"n", "u", "l", "l">>

\* The decimal text of a float64 that is a whole number of tenths.
FormatTenths(n) ==
    LET m == IF n < 0 THEN -n ELSE n
    IN  (IF n < 0 THEN <<"-">> ELSE <<>>) \o FormatNat(m \div 10)
        \o (IF m % 10 = 0 THEN <<>> ELSE <<".", Digit[(m % 10) + 1]>>)

ErrUnsupported == "json.UnsupportedValueError"

\* json.Marshal(v): the bytes and the error.  NaN has no JSON encoding.
JsonMarshal(v) ==
    LET bytes(d) == [data |-> d, err |-> ErrNil]
    IN  CASE v.t = "int"    -> bytes(FormatInt(v.n))
          [] v.t = "string" -> bytes(<<Quote>> \o v.s \o <<Quote>>)
          [] v.t = "bool"   -> bytes(IF v.b THEN <<"t", "r", "u", "e">>
                                     ELSE <<"f", "a", "l", "s", "e">>)
          [] v.t = "float"  -> IF v.nan THEN [data |-> <<>>, err |-> ErrUnsupported]
                               ELSE bytes(FormatTenths(v.tenths))
          [] v.t = "ptr"    -> bytes(IF v.p = <<>> THEN Null ELSE FormatInt(v.p[1]))
          \* a nested Optional[int] is a json.Marshaler: its own MarshalJSON runs
          [] v.t = "opt"    -> bytes(IF v.o = <<>> THEN Null ELSE FormatInt(v.o[1]))

RECURSIVE TrimLeft(_)
TrimLeft(s) == IF Len(s) > 0 /\ s[1] = " " THEN TrimLeft(Tail(s)) ELSE s

RECURSIVE TrimRight(_)
TrimRight(s) == IF Len(s) > 0 /\ s[Len(s)] = " "
                THEN TrimRight(SubSeq(s, 1, Len(s) - 1)) ELSE s

\* The decoder skips white space around the value.
Trim(s) == TrimRight(TrimLeft(s))

\* Digits of a JSON number: no leading zero.
IsIntPart(s) == AllDigits(s) /\ (Len(s) = 1 \/ s[1] # "0")

Unsigned(s) == IF Len(s) > 0 /\ s[1] = "-" THEN Tail(s) ELSE s

Dots(s) == {i \in 1..Len(s) : s[i] = "."}

IsJsonInt(s) == IsIntPart(Unsigned(s))

IsJsonNumber(s) ==
    LET b == Unsigned(s)
    IN  \/ IsIntPart(b)
        \/ \E i \in Dots(b) : /\ IsIntPart(SubSeq(b, 1, i - 1))
                              /\ AllDigits(SubSeq(b, i + 1, Len(b)))

IsJsonString(s) ==
    /\ Len(s) >= 2
    /\ s[1] = Quote
    /\ s[Len(s)] = Quote
    /\ \A i \in 2..(Len(s) - 1) : s[i] # Quote

\* The kind of JSON value a token is; "invalid" fails the decoder's scan.
JsonKind(tok) ==
    CASE tok = Null                                         -> "null"
      [] tok \in { <<"t", "r", "u", "e">>, <<"f", "a", "l", "s", "e">> } -> "bool"
      [] IsJsonNumber(tok)                                  -> "number"
      [] IsJsonString(tok)                                  -> "string"
      [] OTHER                                              -> "invalid"

ParseJsonInt(tok) ==
    IF tok[1] = "-" THEN -ParseNat(Tail(tok)) ELSE ParseNat(tok)

\* A number with at most one digit after the point, in tenths.
IsJsonTenths(tok) ==
    LET b == Unsigned(tok)
    IN  IsJsonNumber(tok) /\ \A i \in Dots(b) : i = Len(b) - 1

ParseJsonTenths(tok) ==
    LET b == Unsigned(tok)
        m == IF Dots(b) = {} THEN 10 * ParseNat(b)
             ELSE 10 * ParseNat(SubSeq(b, 1, Len(b) - 2)) + DigitVal(b[Len(b)])
    IN  IF tok[1] = "-" THEN -m ELSE m

ErrSyntax == "json.SyntaxError"
ErrType   == "json.UnmarshalTypeError"

\* json.Unmarshal(data, &v) with `var v T`: the value v holds afterwards and
\* the error.  A null leaves an int, string or bool untouched and makes a
\* pointer nil; a value of the wrong kind leaves v zero and reports a type error.
JsonUnmarshal(T, data) ==
    LET tok == Trim(data)
        k   == JsonKind(tok)
        bad == [v |-> Zero(T), err |-> ErrType]
    IN  IF k = "invalid" THEN [v |-> Zero(T), err |-> ErrSyntax]
        ELSE IF k = "null" THEN [v |-> Zero(T), err |-> ErrNil]
        ELSE CASE T = "int" ->
                    IF k = "number" /\ IsJsonInt(tok)
                    THEN [v |-> IntV(ParseJsonInt(tok)), err |-> ErrNil] ELSE bad
               [] T = "string" ->
                    IF k = "string"
                    THEN [v |-> StrV(SubSeq(tok, 2, Len(tok) - 1)), err |-> ErrNil] ELSE bad
               [] T = "bool" ->
                    IF k = "bool" THEN [v |-> BoolV(tok[1] = "t"), err |-> ErrNil] ELSE bad
               [] T = "float" ->
                    IF k = "number" /\ IsJsonTenths(tok)
                    THEN [v |-> FloatV(ParseJsonTenths(tok)), err |-> ErrNil] ELSE bad
               [] T = "ptr" ->
                    IF k = "number" /\ IsJsonInt(tok)
                    THEN [v |-> PtrV(<<ParseJsonInt(tok)>>), err |-> ErrNil] ELSE bad
               \* a nested Optional[int] is a json.Unmarshaler: its own
               \* UnmarshalJSON runs on the token
               [] T = "opt" ->
                    IF k = "number" /\ IsJsonInt(tok)
                    THEN [v |-> OptV(<<ParseJsonInt(tok)>>), err |-> ErrNil] ELSE bad

-----------------------------------------------------------------------------
(* Utilities                                                               *)

\* The texts fmt prints for the address a non-nil pointer holds.  The values
\* of the model carry what a pointer points at, not where: the caller says
\* where.
HexAddrs == { <<"0", "x", "c", "0", "0", "0">>, <<"0", "x", "c", "0", "0", "8">> }

\* fmt.Sprintf("%v", v).  A nested Optional is a fmt.Stringer: its own
\* String() runs.
Sprint(v, addr) ==
    CASE v.t = "int"    -> FormatInt(v.n)
      [] v.t = "string" -> v.s
      [] v.t = "bool"   -> IF v.b THEN <<"t", "r", "u", "e">> ELSE <<"f", "a", "l", "s", "e">>
      [] v.t = "float"  -> IF v.nan THEN <<"N", "a", "N">> ELSE FormatTenths(v.tenths)
      [] v.t = "ptr"    -> IF v.p = <<>> THEN <<"<", "n", "i", "l", ">">> ELSE addr
      [] v.t = "opt"    -> IF v.o = <<>> THEN <<>> ELSE FormatInt(v.o[1])

String(h, o, addr) ==
    LET got == Get(h, o)
    IN  IF got.panic THEN [Ret(h) EXCEPT !.panic = TRUE]
        ELSE IF got.ok THEN [Ret(h) EXCEPT !.data = Sprint(got.val, addr)]
        ELSE Ret(h)

OptionalOpen == <<"O", "p", "t", "i", "o", "n", "a", "l", "[">>

GoString(h, o, addr) ==
    LET got == Get(h, o)
    IN  IF got.panic THEN [Ret(h) EXCEPT !.panic = TRUE]
        ELSE IF got.ok
        THEN [Ret(h) EXCEPT !.data = OptionalOpen \o Sprint(got.val, addr) \o <<"]">>]
        ELSE [Ret(h) EXCEPT !.data = OptionalOpen \o <<"]">>]

\* Mutant of MarshalJSON: an Empty optional marshals the zero value of T, as
\* the doc comment of MarshalJSON has it.
MarshalJSON_ZeroOnEmpty(h, o) ==
    LET got == Get(h, o)
    IN  [Ret(h) EXCEPT !.data = JsonMarshal(got.val).data, !.err = JsonMarshal(got.val).err]

\* Mutant of MarshalJSON: an Empty optional marshals as the empty JSON string,
\* the way String() prints it.
MarshalJSON_EmptyString(h, o) ==
    LET got == Get(h, o)
    IN  IF got.ok
        THEN [Ret(h) EXCEPT !.data = JsonMarshal(got.val).data, !.err = JsonMarshal(got.val).err]
        ELSE [Ret(h) EXCEPT !.data = <<Quote, Quote>>]

\* Mutant of MarshalJSON: `return nil, nil` for an Empty optional.
MarshalJSON_NoBytes(h, o) ==
    LET got == Get(h, o)
    IN  IF got.ok
        THEN [Ret(h) EXCEPT !.data = JsonMarshal(got.val).data, !.err = JsonMarshal(got.val).err]
        ELSE Ret(h)

MarshalJSON(h, o) ==
    LET got == Get(h, o)
    IN  IF got.panic THEN [Ret(h) EXCEPT !.panic = TRUE]
        ELSE IF got.ok
        THEN [Ret(h) EXCEPT !.data = JsonMarshal(got.val).data, !.err = JsonMarshal(got.val).err]
        ELSE [Ret(h) EXCEPT !.data = Null]

\* Mutant of IsEmptyValue: Optional as a struct, which encoding/json never
\* finds empty.
IsEmptyValue_Struct(o) == FALSE

\* encoding/json's test for omitempty: a value of slice kind is empty when its
\* length is 0.
IsEmptyValue(o) == o.len = 0

\* The key of the one field of the struct the client encodes.
FieldKey == <<Quote, "f", Quote, ":">>

\* json.Marshal of `struct{ F Optional[T] `json:"f"` }`, or with
\* `json:"f,omitempty"`: the field's own MarshalJSON writes its value.
MarshalStruct(h, o, omitempty) ==
    IF omitempty /\ IsEmptyValue(o) THEN [Ret(h) EXCEPT !.data = <<"{", "}">>]
    ELSE LET m == MarshalJSON(h, o)
         IN  IF m.panic \/ m.err # ErrNil
             THEN [Ret(h) EXCEPT !.err = m.err, !.panic = m.panic]
             ELSE [Ret(h) EXCEPT !.data = <<"{">> \o FieldKey \o m.data \o <<"}">>]

\* Mutant of UnmarshalJSON: no case for null, every input goes to the decoder.
UnmarshalJSON_NoNullCase(h, o, data) ==
    LET r == JsonUnmarshal(o.T, data)
    IN  IF r.err # ErrNil THEN [Ret(h) EXCEPT !.opt = o, !.err = r.err]
        ELSE New(h, r.v)

\* Mutant of UnmarshalJSON: `*o = New(v)` runs before the error is looked at.
UnmarshalJSON_WritesFirst(h, o, data) ==
    IF data = Null THEN NewEmpty(h, o.T)
    ELSE LET r == JsonUnmarshal(o.T, data)
         IN  [New(h, r.v) EXCEPT !.err = r.err]

\* The receiver is a pointer: .opt is what *o holds when the call returns.
UnmarshalJSON(h, o, data) ==
    IF data = Null THEN NewEmpty(h, o.T)
    ELSE LET r == JsonUnmarshal(o.T, data)
         IN  IF r.err # ErrNil THEN [Ret(h) EXCEPT !.opt = o, !.err = r.err]
             ELSE New(h, r.v)

-----------------------------------------------------------------------------
(* The client program.                                                     *)

\* What an Optional holds, apart from where it is stored.
View(h, o) ==
    [T |-> o.T, ok |-> o.base # 0,
     elems |-> IF o.base \in DOMAIN h
               THEN SubSeq(h[o.base], 1, IF o.len <= Len(h[o.base]) THEN o.len ELSE Len(h[o.base]))
               ELSE <<>>]

NoView == [T |-> "none", ok |-> FALSE, elems |-> <<>>]

Empty(T)   == [T |-> T, ok |-> FALSE, elems |-> <<>>]
Present(v) == [T |-> v.t, ok |-> TRUE, elems |-> <<v>>]

\* What a pointer argument points at.
Target(h, p) ==
    [T |-> p.T, nil |-> p.a = 0, val |-> IF p.a \in DOMAIN h THEN h[p.a][1] ELSE NoVal]

NoTarget == [T |-> "none", nil |-> TRUE, val |-> NoVal]

\* The arguments of a call, recorded by value.
Args == [in |-> NoView, arg |-> NoVal, fn |-> "", flag |-> FALSE,
         pin |-> NoTarget, din |-> <<>>, src |-> NoView, via |-> "", from |-> ""]

Record(op, a, r) ==
    [op |-> op, in |-> a.in, arg |-> a.arg, fn |-> a.fn, flag |-> a.flag,
     pin |-> a.pin, din |-> a.din, src |-> a.src, via |-> a.via, from |-> a.from,
     opt |-> r.opt, val |-> r.val, ok |-> r.ok, err |-> r.err, ptr |-> r.ptr,
     data |-> r.data, calls |-> r.calls, panic |-> r.panic]

\* Cells no variable refers to are garbage; the collector may move the rest.
\* Addresses are handed out in the order x, ptr, last.opt, last.ptr.
Roots(nx, np, nl) == <<nx.base, np.a, nl.opt.base, nl.ptr.a>>

Moved(rs, a) ==
    IF a = 0 THEN 0
    ELSE LET first == CHOOSE i \in 1..Len(rs) : rs[i] = a /\ \A j \in 1..(i - 1) : rs[j] # a
         IN  Cardinality({rs[j] : j \in 1..first} \ {0})

Collect(h, nx, np, nl) ==
    LET rs   == Roots(nx, np, nl)
        live == {rs[i] : i \in 1..Len(rs)} \ {0}
    IN  /\ heap' = [b \in {Moved(rs, a) : a \in live} |->
                        h[CHOOSE a \in live : Moved(rs, a) = b]]
        /\ x'    = [nx EXCEPT !.base = Moved(rs, nx.base)]
        /\ ptr'  = [np EXCEPT !.a = Moved(rs, np.a)]
        /\ last' = [nl EXCEPT !.opt.base = Moved(rs, nl.opt.base),
                              !.ptr.a = Moved(rs, nl.ptr.a)]
        /\ curried' = curried

\* The end of a step of the client itself: no goroutine moves.
Commit(h, nx, np, nl) == Collect(h, nx, np, nl) /\ threads' = threads

\* A call that leaves the client's variables alone.
Returns(op, a, r) == Commit(r.h, x, ptr, Record(op, a, r))

\* The client is written for one payload type T: the type of its variables.
\* The optionals it encodes: the variable, or the result of the last call.
Encodable == {x} \cup (IF last.opt.T \in Types /\ ~last.panic THEN {last.opt} ELSE {})

Datas ==
    { Null, <<"0">>, <<"6", "9">>, <<"-", "1">>, <<"1", ".", "5">>,
      <<Quote, Quote>>, <<Quote, "g", "o", Quote>>,
      <<Quote, "n", "u", "l", "l", Quote>>,
      <<"t", "r", "u", "e">>, <<"f", "a", "l", "s", "e">>,
      <<" ", "n", "u", "l", "l">>, <<"n", "u", "l">>, <<Quote, "g", "o">> }

\* The func a curried form returns: the closure of its body over fn.
Closure(of, fn) == [of |-> of, fn |-> fn]

NoClosure == Closure("none", "")

Closures(T) ==
    {Closure(of, fn) : of \in {"MapC", "GetMapC", "PtrMapC"}, fn \in FnsFrom(T)}
        \cup {Closure("MapErrC", fn) : fn \in ErrFnsFrom(T)}

\* The number of goroutines that read the shared Optional, one call each.
MaxThreads == 2

\* What a call returned, by value.
Out(r) ==
    [opt |-> View(r.h, r.opt), val |-> r.val, ok |-> r.ok, err |-> r.err,
     ptr |-> Target(r.h, r.ptr), data |-> r.data, calls |-> r.calls, panic |-> r.panic]

Init ==
    /\ heap = [a \in {} |-> <<>>]
    /\ \E T \in Types : x = Nil(T) /\ ptr = NilPtr(T)
    /\ last = Record("init", Args, Ret(heap))
    /\ curried = NoClosure
    /\ threads = {}

\* `v := value; ptr = &v`, or `ptr = nil`
SetPtr ==
    \/ \E v \in ValuesOf(ptr.T) :
          LET a == Alloc(heap)
          IN  Commit(Put(heap, a, <<v>>), x, [T |-> ptr.T, a |-> a],
                     Record("SetPtr", Args, Ret(heap)))
    \/ Commit(heap, x, NilPtr(ptr.T), Record("SetPtr", Args, Ret(heap)))

\* `x = result` after a call that returned an Optional of x's type
Assign ==
    /\ last.opt.T = x.T
    /\ ~last.panic
    /\ Commit(heap, last.opt, ptr, Record("Assign", Args, Ret(heap)))

\* `b := x`: the copy is a second slice header over the same backing array.
Copy ==
    Returns("Copy", [Args EXCEPT !.in = View(heap, x)], [Ret(heap) EXCEPT !.opt = x])

\* `ptr = result` after a call that returned a pointer of ptr's type
KeepPtr ==
    /\ last.ptr.T = ptr.T
    /\ ~last.panic
    /\ Commit(heap, x, last.ptr, Record("KeepPtr", Args, Ret(heap)))

\* The pointers a client can write through: x.Ptr(), the Ptr() of the Optional
\* the last call returned, its own ptr, and the pointer the last call returned.
Pointer(via) ==
    CASE via = "x.Ptr()"    -> Ptr(heap, x).ptr
      [] via = "last.Ptr()" -> IF last.opt.T \in Types THEN Ptr(heap, last.opt).ptr ELSE NoPtr
      [] via = "ptr"        -> ptr
      [] via = "last.ptr"   -> last.ptr

Vias == {"x.Ptr()", "last.Ptr()", "ptr", "last.ptr"}

\* `*p = w`.  The client keeps what the last call returned; the record holds
\* what its variables showed before the write, and the call the results are from.
Store ==
    /\ ~last.panic
    /\ \E via \in Vias :
          LET p == Pointer(via)
          IN  /\ p.T \in Types
              /\ p.a \in DOMAIN heap
              /\ \E w \in ValuesOf(p.T) :
                    LET a == [Args EXCEPT !.in = View(heap, x),
                                          !.src = View(heap, last.opt),
                                          !.pin = Target(heap, ptr),
                                          !.arg = w, !.fn = last.fn, !.via = via,
                                          !.from = IF last.op = "Store" THEN last.from
                                                   ELSE last.op]
                        r == [Ret(Put(heap, p.a, <<w>>)) EXCEPT
                                 !.opt = last.opt, !.ptr = last.ptr]
                    IN  Returns("Store", a, r)

DoNewEmpty ==
    Returns("NewEmpty", Args, NewEmpty(heap, x.T))

DoNew ==
    \E v \in ValuesOf(x.T) :
        Returns("New", [Args EXCEPT !.arg = v], New(heap, v))

DoNewMap ==
    \E v \in ValuesOf(x.T) : \E fn \in FnsFrom(x.T) :
        Returns("NewMap", [Args EXCEPT !.arg = v, !.fn = fn], NewMap(heap, v, fn))

DoNewSafe ==
    \E v \in ValuesOf(x.T) : \E ok \in BOOLEAN :
        Returns("NewSafe", [Args EXCEPT !.arg = v, !.flag = ok], NewSafe(heap, v, ok))

DoNewIf ==
    \E v \in ValuesOf(x.T) : \E fn \in Preds :
        Returns("NewIf", [Args EXCEPT !.arg = v, !.fn = fn], NewIf(heap, v, fn))

DoNewPtr ==
    Returns("NewPtr", [Args EXCEPT !.pin = Target(heap, ptr)], NewPtr(heap, ptr))

DoNewPtrMap ==
    \E fn \in FnsFrom(ptr.T) :
        Returns("NewPtrMap", [Args EXCEPT !.pin = Target(heap, ptr), !.fn = fn],
                NewPtrMap(heap, ptr, fn))

DoNewPtrIf ==
    \E fn \in Preds :
        Returns("NewPtrIf", [Args EXCEPT !.pin = Target(heap, ptr), !.fn = fn],
                NewPtrIf(heap, ptr, fn))

DoNewPtrOr ==
    \E v \in ValuesOf(ptr.T) :
        Returns("NewPtrOr", [Args EXCEPT !.pin = Target(heap, ptr), !.arg = v],
                NewPtrOr(heap, ptr, v))

DoOk ==
    Returns("Ok", [Args EXCEPT !.in = View(heap, x)], [Ret(heap) EXCEPT !.ok = Ok(x)])

DoGet ==
    Returns("Get", [Args EXCEPT !.in = View(heap, x)], Get(heap, x))

DoGetMap ==
    \E fn \in FnsFrom(x.T) :
        Returns("GetMap", [Args EXCEPT !.in = View(heap, x), !.fn = fn], GetMap(heap, x, fn))

DoGetMapC ==
    \E fn \in FnsFrom(x.T) :
        Returns("GetMapC", [Args EXCEPT !.in = View(heap, x), !.fn = fn], GetMapC(heap, x, fn))

DoPtr ==
    Returns("Ptr", [Args EXCEPT !.in = View(heap, x)], Ptr(heap, x))

DoPtrMap ==
    \E fn \in FnsFrom(x.T) :
        Returns("PtrMap", [Args EXCEPT !.in = View(heap, x), !.fn = fn], PtrMap(heap, x, fn))

DoPtrMapC ==
    \E fn \in FnsFrom(x.T) :
        Returns("PtrMapC", [Args EXCEPT !.in = View(heap, x), !.fn = fn], PtrMapC(heap, x, fn))

DoOr ==
    \E v \in ValuesOf(x.T) :
        Returns("Or", [Args EXCEPT !.in = View(heap, x), !.arg = v], Or(heap, x, v))

DoCall ==
    Returns("Call", [Args EXCEPT !.in = View(heap, x), !.fn = "Println"],
                Call(heap, x, "Println"))

DoOrCall ==
    \E v \in ValuesOf(x.T) :
        Returns("OrCall", [Args EXCEPT !.in = View(heap, x), !.arg = v], OrCall(heap, x, v))

DoOrZero ==
    Returns("OrZero", [Args EXCEPT !.in = View(heap, x)], OrZero(heap, x))

DoMap ==
    \E fn \in FnsFrom(x.T) :
        Returns("Map", [Args EXCEPT !.in = View(heap, x), !.fn = fn], Map(heap, x, fn))

DoMapC ==
    \E fn \in FnsFrom(x.T) :
        Returns("MapC", [Args EXCEPT !.in = View(heap, x), !.fn = fn], MapC(heap, x, fn))

DoMapErr ==
    \E fn \in ErrFnsFrom(x.T) :
        Returns("MapErr", [Args EXCEPT !.in = View(heap, x), !.fn = fn], MapErr(heap, x, fn))

DoMapErrC ==
    \E fn \in ErrFnsFrom(x.T) :
        Returns("MapErrC", [Args EXCEPT !.in = View(heap, x), !.fn = fn], MapErrC(heap, x, fn))

DoMarshalJSON ==
    \E o \in Encodable :
        Returns("MarshalJSON", [Args EXCEPT !.in = View(heap, o)], MarshalJSON(heap, o))

DoMarshalStruct ==
    \E omitempty \in BOOLEAN :
        Returns("MarshalStruct", [Args EXCEPT !.in = View(heap, x), !.flag = omitempty],
                MarshalStruct(heap, x, omitempty))

\* The bytes a client decodes: some it has, or the ones MarshalJSON just returned
\* (src is then the optional they encode).  The target is the variable x.
DoUnmarshalJSON ==
    LET marshalled == last.op = "MarshalJSON" /\ ~last.panic /\ last.err = ErrNil
    IN  \E data \in Datas \cup (IF marshalled THEN {last.data} ELSE {}) :
            LET r == UnmarshalJSON(heap, x, data)
                a == [Args EXCEPT !.in = View(heap, x), !.din = data,
                                  !.src = IF marshalled /\ data = last.data
                                          THEN last.in ELSE NoView]
            IN  Commit(r.h, r.opt, ptr, Record("UnmarshalJSON", a, r))

Next ==
    \/ SetPtr
    \/ Assign
    \/ DoNewEmpty
    \/ DoNew
    \/ DoNewMap
    \/ DoNewSafe
    \/ DoNewIf
    \/ DoNewPtr
    \/ DoNewPtrMap
    \/ DoNewPtrIf
    \/ DoNewPtrOr
    \/ DoOk
    \/ DoGet
    \/ DoGetMap
    \/ DoGetMapC
    \/ DoPtr
    \/ DoPtrMap
    \/ DoPtrMapC
    \/ DoOr
    \/ DoCall
    \/ DoOrCall
    \/ DoOrZero
    \/ DoMap
    \/ DoMapC
    \/ DoMapErr
    \/ DoMapErrC
    \/ DoMarshalJSON
    \/ DoMarshalStruct
    \/ DoUnmarshalJSON

Spec == Init /\ [][Next]_vars

\* `curried = MapC(fn)` (or GetMapC, PtrMapC, MapErrC): nothing runs yet.
Curry ==
    /\ \E c \in Closures(x.T) : curried' = c
    /\ UNCHANGED <<heap, x, ptr, last, threads>>

\* `curried(o)` for an Optional the client has: its variable or the result of
\* the last call.  The record names the call before (from) and what it returned.
ApplyC ==
    /\ curried # NoClosure
    /\ ~last.panic
    /\ \E o \in {x} \cup (IF last.opt.T = x.T THEN {last.opt} ELSE {}) :
          LET fn == curried.fn
              r  == CASE curried.of = "MapC"    -> MapC(heap, o, fn)
                      [] curried.of = "GetMapC" -> GetMapC(heap, o, fn)
                      [] curried.of = "PtrMapC" -> PtrMapC(heap, o, fn)
                      [] curried.of = "MapErrC" -> MapErrC(heap, o, fn)
              a  == [Args EXCEPT !.in = View(heap, o), !.fn = fn, !.via = "curried",
                                 !.from = last.op, !.src = View(heap, last.opt)]
          IN  Returns(curried.of, a, r)

\* A client that builds one curried function and applies it to the Optionals
\* it makes.
NextC ==
    \/ Curry
    \/ ApplyC
    \/ Assign
    \/ DoNewEmpty
    \/ DoNew

SpecC == Init /\ [][NextC]_vars

\* The calls that only read their receiver, with the arguments a goroutine
\* can pass for payload type T.
Reads(T) ==
    LET call(op, arg, fn, addr) == [op |-> op, arg |-> arg, fn |-> fn, addr |-> addr]
    IN  {call(op, NoVal, "", <<>>) : op \in {"Ok", "Get", "OrZero", "MarshalJSON"}}
        \cup {call(op, v, "", <<>>) : op \in {"Or", "OrCall"}, v \in ValuesOf(T)}
        \cup {call(op, NoVal, fn, <<>>) : op \in {"GetMap", "Map", "PtrMap"}, fn \in FnsFrom(T)}
        \cup {call("MapErr", NoVal, fn, <<>>) : fn \in ErrFnsFrom(T)}
        \cup {call("Call", NoVal, "Println", <<>>)}
        \cup {call(op, NoVal, "", addr) : op \in {"String", "GoString"},
                                          addr \in IF T = "ptr" THEN HexAddrs ELSE {<<>>}}

Run(c, h, o) ==
    CASE c.op = "Ok"          -> [Ret(h) EXCEPT !.ok = Ok(o)]
      [] c.op = "Get"         -> Get(h, o)
      [] c.op = "GetMap"      -> GetMap(h, o, c.fn)
      [] c.op = "Or"          -> Or(h, o, c.arg)
      [] c.op = "OrZero"      -> OrZero(h, o)
      [] c.op = "OrCall"      -> OrCall(h, o, c.arg)
      [] c.op = "Call"        -> Call(h, o, c.fn)
      [] c.op = "Map"         -> Map(h, o, c.fn)
      [] c.op = "MapErr"      -> MapErr(h, o, c.fn)
      [] c.op = "PtrMap"      -> PtrMap(h, o, c.fn)
      [] c.op = "String"      -> String(h, o, c.addr)
      [] c.op = "GoString"    -> GoString(h, o, c.addr)
      [] c.op = "MarshalJSON" -> MarshalJSON(h, o)

\* The client builds its Optional before any goroutine reads it.
Construct ==
    /\ last.op # "Share"
    /\ \/ DoNewEmpty
       \/ DoNew
       \/ Assign
       \/ DoUnmarshalJSON

\* `go reader(x)`, once per goroutine: each gets a copy of x.
Share ==
    /\ last.op # "Share"
    /\ Commit(heap, x, ptr, Record("Share", [Args EXCEPT !.in = View(heap, x)], Ret(heap)))

\* One more goroutine runs its call on its copy of x; what the call was given
\* and what it returned are kept by value (goroutines that ran the same call
\* with the same outcome are not told apart).  Whatever the call wrote stays on
\* the heap.
Read ==
    /\ last.op = "Share"
    /\ Cardinality(threads) < MaxThreads
    /\ \E c \in Reads(x.T) :
          LET r == Run(c, heap, x)
          IN  /\ threads' = threads \cup
                     {[op |-> c.op, arg |-> c.arg, fn |-> c.fn, addr |-> c.addr,
                       in |-> View(heap, x), out |-> Out(r)]}
              /\ Collect(r.h, x, ptr, last)

NextRd ==
    \/ Construct
    \/ Share
    \/ Read

SpecRd == Init /\ [][NextRd]_vars

\* A client that copies Optionals, keeps the pointers it is handed and writes
\* through them.
NextPtr ==
    \/ SetPtr
    \/ Assign
    \/ Copy
    \/ KeepPtr
    \/ Store
    \/ DoNewEmpty
    \/ DoNew
    \/ DoNewPtr
    \/ DoNewPtrIf
    \/ DoNewPtrOr
    \/ DoGet
    \/ DoPtr
    \/ DoPtrMap

SpecPtr == Init /\ [][NextPtr]_vars

-----------------------------------------------------------------------------
(* Properties                                                              *)

\* The value a recorded Present optional held.
Held(view) == view.elems[1]

\* The result of the last call, as an optional value.
Result == View(heap, last.opt)

\* An Optional is the nil slice, or a slice of exactly one element.
TwoStates(h, o) ==
    \/ o.base = 0 /\ o.len = 0
    \/ o.base \in DOMAIN h /\ o.len = 1 /\ Len(h[o.base]) = 1

\* C1: whatever constructors, combinators and UnmarshalJSON calls have run,
\* the client's Optional and every Optional a call returned is either Empty
\* (nil) or Present with exactly one held value; so whenever Ok() is true the
\* element o[0] the accessors read exists, and no call has indexed out of range.
C1_TwoStates ==
    /\ TwoStates(heap, x)
    /\ last.opt.T \in Types => TwoStates(heap, last.opt)
    /\ Ok(x) => InRange(heap, x)
    /\ last.opt.T \in Types /\ Ok(last.opt) => InRange(heap, last.opt)
    /\ ~last.panic

\* A Present optional has just been read with Get.
C1_Witness ==
    /\ last.op = "Get" /\ last.ok /\ ~last.panic
    /\ Ok(x) /\ Len(heap[x.base]) = 1

\* C2: on an Empty input (or a nil pointer) Map, MapErr, GetMap, PtrMap, Call,
\* NewPtrMap and NewPtrIf do not invoke the caller's function, and return
\* Empty, (Empty, nil), (zero value, false), nil, nothing, Empty and Empty.
C2_ShortCircuit ==
    /\ last.op = "Map" /\ ~last.in.ok =>
          last.calls = <<>> /\ Result = Empty(FnOut(last.fn, last.in.T))
    /\ last.op = "MapErr" /\ ~last.in.ok =>
          last.calls = <<>> /\ Result = Empty(ErrFnOut(last.fn)) /\ last.err = ErrNil
    /\ last.op = "GetMap" /\ ~last.in.ok =>
          last.calls = <<>> /\ last.val = Zero(FnOut(last.fn, last.in.T)) /\ ~last.ok
    /\ last.op = "PtrMap" /\ ~last.in.ok =>
          last.calls = <<>> /\ last.ptr = NilPtr(FnOut(last.fn, last.in.T))
    /\ last.op = "Call" /\ ~last.in.ok =>
          last.calls = <<>>
    /\ last.op = "NewPtrMap" /\ last.pin.nil =>
          last.calls = <<>> /\ Result = Empty(FnOut(last.fn, last.pin.T))
    /\ last.op = "NewPtrIf" /\ last.pin.nil =>
          last.calls = <<>> /\ Result = Empty(last.pin.T)

\* MapErr has just run on an Empty optional.
C2_Witness ==
    last.op = "MapErr" /\ ~last.in.ok /\ last.err = ErrNil /\ ~Ok(last.opt)

\* C3: Map on Present(v) returns Present(fn(v)), Present also when fn(v) is the
\* zero value of the output type, and invokes fn exactly once, with v.
C3_MapPresent ==
    last.op = "Map" /\ last.in.ok =>
        /\ Result = Present(Apply(last.fn, Held(last.in)))
        /\ Ok(last.opt)
        /\ last.calls = <<Invoke(last.fn, Held(last.in))>>

\* Map has returned a Present optional holding the zero value fn produced.
C3_Witness ==
    /\ last.op = "Map" /\ last.in.ok
    /\ Apply(last.fn, Held(last.in)) = Zero(FnOut(last.fn, last.in.T))
    /\ Ok(last.opt) /\ Len(last.calls) = 1

\* C4: MapErr on Present(v) invokes fn once; when fn returns (out, nil) the
\* result is (Present(out), nil); when fn returns (out, err) with err non-nil
\* the result is (Empty, err) with that very err, whatever out was.
C4_MapErrPresent ==
    last.op = "MapErr" /\ last.in.ok =>
        LET r == ApplyErr(last.fn, Held(last.in))
        IN  /\ last.calls = <<Invoke(last.fn, Held(last.in))>>
            /\ r.err = ErrNil => Result = Present(r.out) /\ last.err = ErrNil
            /\ r.err # ErrNil => Result = Empty(ErrFnOut(last.fn)) /\ last.err = r.err

\* fn failed but returned a non-zero out; MapErr returned (Empty, err).
C4_Witness ==
    /\ last.op = "MapErr" /\ last.in.ok
    /\ ApplyErr(last.fn, Held(last.in)).err # ErrNil
    /\ ApplyErr(last.fn, Held(last.in)).out # Zero(ErrFnOut(last.fn))
    /\ ~Ok(last.opt) /\ last.err = "ErrRange"

\* C5 as claimed: for every payload type and every value v, decoding what
\* MarshalJSON wrote for Present(v) gives Present(v), and decoding what it
\* wrote for Empty gives Empty.
C5_RoundTripEveryValue ==
    last.op = "UnmarshalJSON" /\ last.src.T = last.in.T =>
        last.err = ErrNil /\ View(heap, x) = last.src

\* C5, amended: decoding what MarshalJSON wrote for Empty gives Empty, and
\* decoding what it wrote for Present(v) gives Present(v) for every v that the
\* standard encoder does not write as null (so not for a nil pointer or an
\* Empty nested Optional held as the value).
C5_RoundTrip ==
    /\ last.op = "UnmarshalJSON"
    /\ last.src.T = last.in.T
    /\ last.src.ok => JsonMarshal(Held(last.src)).data # Null
    => last.err = ErrNil /\ View(heap, x) = last.src

\* A Present pointer payload was encoded and decoded into a target that held
\* something else, and the target now holds the same value.
C5_Witness ==
    /\ last.op = "UnmarshalJSON"
    /\ last.src.ok /\ last.src.T = "ptr" /\ last.in.T = "ptr"
    /\ last.in # last.src
    /\ View(heap, x) = last.src

C7_Unmarshal ==
    last.op = "UnmarshalJSON" =>
        LET r == JsonUnmarshal(last.in.T, last.din)
        IN  /\ last.din = Null => last.err = ErrNil /\ View(heap, x) = Empty(last.in.T)
            /\ last.din # Null /\ r.err = ErrNil =>
                  last.err = ErrNil /\ View(heap, x) = Present(r.v)
            /\ last.din = <<"0">> /\ last.in.T = "int" =>
                  View(heap, x) = Present(IntV(0))
            /\ last.din = <<"f", "a", "l", "s", "e">> /\ last.in.T = "bool" =>
                  View(heap, x) = Present(BoolV(FALSE))
            /\ last.din = <<Quote, Quote>> /\ last.in.T = "string" =>
                  View(heap, x) = Present(StrV(<<>>))

\* A Present target has been made Empty by decoding null.
C7_Witness ==
    last.op = "UnmarshalJSON" /\ last.din = Null /\ last.in.ok /\ ~Ok(x)

\* C8: on input that is not null and that the decoder of T rejects,
\* UnmarshalJSON returns the decoder's error and the target holds what it held
\* before the call.
C8_DecodeError ==
    last.op = "UnmarshalJSON" /\ last.din # Null
        /\ JsonUnmarshal(last.in.T, last.din).err # ErrNil =>
            /\ last.err = JsonUnmarshal(last.in.T, last.din).err
            /\ View(heap, x) = last.in

\* A Present target has survived a decode that failed with a type error.
C8_Witness ==
    /\ last.op = "UnmarshalJSON" /\ last.err = ErrType
    /\ last.in.ok /\ Ok(x) /\ View(heap, x) = last.in

\* C9: Ok() is false for the zero Optional and for NewEmpty(), true for New(v)
\* for every v; Get() returns (v, true) on Present(v) and (zero, false) on
\* Empty, and does not panic.
C9_Presence ==
    /\ last.op = "init" => ~Ok(x)
    /\ last.op = "NewEmpty" => ~Ok(last.opt)
    /\ last.op = "New" => Ok(last.opt) /\ Result = Present(last.arg)
    /\ last.op = "Ok" => last.ok = (Len(last.in.elems) = 1)
    /\ last.op = "Get" =>
          /\ ~last.panic
          /\ Len(last.in.elems) = 1 => last.val = Held(last.in) /\ last.ok
          /\ Len(last.in.elems) = 0 => last.val = Zero(last.in.T) /\ ~last.ok

\* Get has returned (zero value, true): Present(zero) is not Empty.
C9_Witness ==
    last.op = "Get" /\ last.ok /\ last.val = Zero(last.in.T)

\* C10: NewPtr(nil) is Empty and NewPtr(p) is Present(*p); NewPtrOr is always
\* Present: Present(*p) for a non-nil p and Present(fallback) for nil.
C10_PtrOr ==
    /\ last.op = "NewPtr" =>
          Result = IF last.pin.nil THEN Empty(last.pin.T) ELSE Present(last.pin.val)
    /\ last.op = "NewPtrOr" =>
          /\ Ok(last.opt)
          /\ Result = IF last.pin.nil THEN Present(last.arg) ELSE Present(last.pin.val)

\* NewPtrOr has been given a nil pointer and returned Present(fallback).
C10_Witness ==
    /\ last.op = "NewPtrOr" /\ last.pin.nil
    /\ Ok(last.opt) /\ Result = Present(last.arg)

\* C11: NewSafe(v, true) is Present(v) and NewSafe(v, false) is Empty, for
\* every v, the zero value included.
C11_NewSafe ==
    last.op = "NewSafe" =>
        Result = IF last.flag THEN Present(last.arg) ELSE Empty(last.arg.t)

\* NewSafe(zero value, true) has returned a Present optional.
C11_Witness ==
    /\ last.op = "NewSafe" /\ last.flag /\ last.arg = Zero(last.arg.t)
    /\ Ok(last.opt) /\ Result = Present(last.arg)

C13_OrDefaults ==
    /\ last.op = "Or" =>
          last.val = IF last.in.ok THEN Held(last.in) ELSE last.arg
    /\ last.op = "OrZero" =>
          last.val = IF last.in.ok THEN Held(last.in) ELSE Zero(last.in.T)
    /\ OrZero(heap, x).val = Or(heap, x, Zero(x.T)).val

\* Or(f) on Present(zero value) with another f has returned the zero value.
C13_Witness ==
    /\ last.op = "Or" /\ last.in.ok
    /\ Held(last.in) = Zero(last.in.T) /\ last.arg # Zero(last.in.T)
    /\ last.val = Zero(last.in.T)

\* C17: NewIf(v, pred) is Present(v) when pred(v) holds and Empty otherwise;
\* NewPtrIf(p, pred) is Present(*p) when p is not nil and pred(*p) holds, and
\* Empty otherwise; pred runs at most once, and not at all on a nil pointer.
C17_NewIf ==
    /\ last.op = "NewIf" =>
          /\ Result = IF Test(last.fn, last.arg) THEN Present(last.arg)
                      ELSE Empty(last.arg.t)
          /\ last.calls = <<Invoke(last.fn, last.arg)>>
    /\ last.op = "NewPtrIf" /\ last.pin.nil =>
          Result = Empty(last.pin.T) /\ last.calls = <<>>
    /\ last.op = "NewPtrIf" /\ ~last.pin.nil =>
          /\ Result = IF Test(last.fn, last.pin.val) THEN Present(last.pin.val)
                      ELSE Empty(last.pin.T)
          /\ last.calls = <<Invoke(last.fn, last.pin.val)>>

\* NewPtrIf on a non-nil pointer whose predicate held.
C17_Witness ==
    /\ last.op = "NewPtrIf" /\ ~last.pin.nil /\ Test(last.fn, last.pin.val)
    /\ Result = Present(last.pin.val) /\ Len(last.calls) = 1

\* C18: NewMap(v, fn) is Present(fn(v)), never Empty, also when fn(v) is the
\* zero value; NewPtrMap(p, fn) is Empty exactly when p is nil and
\* Present(fn(*p)) otherwise.
C18_NewMap ==
    /\ last.op = "NewMap" =>
          Ok(last.opt) /\ Result = Present(Apply(last.fn, last.arg))
    /\ last.op = "NewPtrMap" =>
          /\ ~Ok(last.opt) <=> last.pin.nil
          /\ Result = IF last.pin.nil THEN Empty(FnOut(last.fn, last.pin.T))
                      ELSE Present(Apply(last.fn, last.pin.val))

\* NewMap has wrapped a zero result of fn.
C18_Witness ==
    /\ last.op = "NewMap"
    /\ Apply(last.fn, last.arg) = Zero(FnOut(last.fn, last.arg.t))
    /\ Ok(last.opt) /\ Result = Present(Zero(FnOut(last.fn, last.arg.t)))

\* C14: after `b := a`, a write through a.Ptr() does not change what b.Get()
\* returns, and a write through b.Ptr() does not change what a.Get() returns.
\* (a is the client's x, b the copy it was handed.)
C14_CopiesDoNotShare ==
    last.op = "Store" /\ last.from = "Copy" =>
        /\ last.via = "x.Ptr()" => View(heap, last.opt) = last.src
        /\ last.via = "last.Ptr()" => View(heap, x) = last.in

\* C15: after o := NewPtr(p), NewPtrIf(p, pred) or NewPtrOr(p, v), o does not
\* refer to p's variable: a write to *p leaves o as it was, and a write through
\* o.Ptr() leaves *p as it was.
C15_NewPtrCopies ==
    /\ last.op \in {"NewPtr", "NewPtrIf", "NewPtrOr"} /\ Ok(last.opt) =>
          last.opt.base # ptr.a
    /\ last.op = "Store" /\ last.from \in {"NewPtr", "NewPtrIf", "NewPtrOr"} =>
          /\ last.via = "ptr" => View(heap, last.opt) = last.src
          /\ last.via = "last.Ptr()" => Target(heap, ptr) = last.pin

\* After o := NewPtr(p), *p has been overwritten with another value and o
\* still holds the old one.
C15_Witness ==
    /\ last.op = "Store" /\ last.from = "NewPtr" /\ last.via = "ptr"
    /\ last.arg # last.pin.val /\ Target(heap, ptr).val = last.arg
    /\ View(heap, last.opt) = Present(last.pin.val)

\* C16: Ptr() is nil iff the optional is Empty, and otherwise points at the
\* held value; PtrMap(o, fn) is nil iff o is Empty, and otherwise points at a
\* cell holding fn(v) that is neither o's storage nor the target of any pointer
\* the client already holds, so a write through it changes neither.
C16_Ptr ==
    /\ last.op = "Ptr" =>
          /\ last.ptr.a = 0 <=> ~last.in.ok
          /\ last.in.ok => Deref(heap, last.ptr) = Held(last.in)
    /\ last.op = "PtrMap" =>
          /\ last.ptr.a = 0 <=> ~last.in.ok
          /\ last.in.ok =>
                /\ Deref(heap, last.ptr) = Apply(last.fn, Held(last.in))
                /\ last.ptr.a \notin {x.base, ptr.a}
    /\ last.op = "Store" /\ last.from = "PtrMap" /\ last.via = "last.ptr" =>
          View(heap, x) = last.in /\ Target(heap, ptr) = last.pin

\* The cell PtrMap returned has been overwritten with a value other than the
\* one o holds, while the client also keeps the pointer of an earlier PtrMap.
C16_Witness ==
    /\ last.op = "Store" /\ last.from = "PtrMap" /\ last.via = "last.ptr"
    /\ last.in.ok /\ last.arg # Held(last.in) /\ Deref(heap, last.ptr) = last.arg
    /\ ptr.a # 0 /\ ptr.a # x.base /\ ptr.a # last.ptr.a
    /\ View(heap, x) = last.in

\* An Optional with the given elements, alone on a heap of its own.
OnOwn(view) ==
    IF view.ok
    THEN [h |-> [a \in {1} |-> view.elems],
          o |-> [T |-> view.T, base |-> 1, len |-> Len(view.elems)]]
    ELSE [h |-> [a \in {} |-> <<>>], o |-> Nil(view.T)]

\* C19: whatever the curried function was applied to before, MapC(fn)(o),
\* MapErrC(fn)(o) and GetMapC(fn)(o) return what Map(o, fn), MapErr(o, fn) and
\* GetMap(o, fn) return for that o alone, PtrMapC(fn)(o) is nil or points at the
\* same value as PtrMap(o, fn), and fn is invoked the same number of times
\* with the same argument.
C19_Curried ==
    LET own == OnOwn(last.in)
    IN  /\ last.op = "MapC" =>
              LET b == Map(own.h, own.o, last.fn)
              IN  Result = View(b.h, b.opt) /\ last.calls = b.calls /\ last.panic = b.panic
        /\ last.op = "MapErrC" =>
              LET b == MapErr(own.h, own.o, last.fn)
              IN  /\ Result = View(b.h, b.opt) /\ last.err = b.err
                  /\ last.calls = b.calls /\ last.panic = b.panic
        /\ last.op = "GetMapC" =>
              LET b == GetMap(own.h, own.o, last.fn)
              IN  /\ last.val = b.val /\ last.ok = b.ok
                  /\ last.calls = b.calls /\ last.panic = b.panic
        /\ last.op = "PtrMapC" =>
              LET b == PtrMap(own.h, own.o, last.fn)
              IN  /\ last.ptr.T = b.ptr.T
                  /\ last.ptr.a = 0 <=> b.ptr.a = 0
                  /\ last.ptr.a # 0 => Deref(heap, last.ptr) = Deref(b.h, b.ptr)
                  /\ last.calls = b.calls /\ last.panic = b.panic

\* One curried MapC(fn) has been applied to two Present optionals in turn and
\* returned two different results, invoking fn once for the second.
C19_Witness ==
    /\ last.op = "MapC" /\ last.via = "curried" /\ last.from = "MapC"
    /\ last.in.ok /\ last.src.ok /\ Ok(last.opt) /\ Result # last.src
    /\ last.calls = <<Invoke(curried.fn, Held(last.in))>>

\* C20: a struct field of type Optional tagged omitempty is left out of the
\* JSON output when the Optional is Empty, and is written, with the encoding of
\* the held value, when it is Present, also when the held value is T's zero
\* value; it is never left out when Present.
C20_OmitEmpty ==
    last.op = "MarshalStruct" /\ last.flag =>
        /\ ~last.in.ok => last.data = <<"{", "}">> /\ last.err = ErrNil
        /\ last.in.ok => last.data # <<"{", "}">>
        /\ last.in.ok /\ last.err = ErrNil =>
              last.data = <<"{">> \o FieldKey \o JsonMarshal(Held(last.in)).data \o <<"}">>
        /\ last.in.ok => last.err = JsonMarshal(Held(last.in)).err

\* A Present field holding T's zero value has been written under omitempty.
C20_Witness ==
    /\ last.op = "MarshalStruct" /\ last.flag /\ last.in.ok
    /\ Held(last.in) = Zero(last.in.T) /\ last.err = ErrNil
    /\ last.data = <<"{">> \o FieldKey \o JsonMarshal(Zero(last.in.T)).data \o <<"}">>

\* The payload types whose zero value json.Marshal writes as null.
NullZero == {T \in Types : JsonMarshal(Zero(T)).data = Null}

CallOf(done) == [op |-> done.op, arg |-> done.arg, fn |-> done.fn, addr |-> done.addr]

\* C22: Ok, Get, GetMap, Or, OrZero, OrCall, Call, Map, MapErr, PtrMap, String,
\* GoString and MarshalJSON leave their receiver in the same state with the
\* same held value; so, while several goroutines run them in any order on one
\* Optional the client built (by constructors or UnmarshalJSON) before sharing
\* it, the Optional stays as it was shared, and every call returns what it
\* returns when run alone on that Optional.
C22_ReadOnly ==
    \A done \in threads :
        /\ last.op = "Share"
        /\ View(heap, x) = last.in
        /\ done.in = last.in
        /\ done.out = Out(Run(CallOf(done), OnOwn(last.in).h, OnOwn(last.in).o))
        /\ ~done.out.panic

\* Two goroutines have read one Present optional: one mapped it to a different
\* optional, the other got the value it was shared with.
C22_Witness ==
    /\ last.op = "Share" /\ last.in.ok /\ View(heap, x) = last.in
    /\ \E mapped \in threads :
          mapped.op = "Map" /\ mapped.out.opt.ok /\ mapped.out.opt # last.in
    /\ \E got \in threads :
          got.op = "Get" /\ got.out.ok /\ got.out.val = Held(last.in)

====
